---- MODULE Spec2Model ----
(***************************************************************************)
(* Praxis Assistant front end: the token store (App.jsx useJwtToken), the  *)
(* API client (lib/api.js request and its helpers) and the two ChatWidget  *)
(* variants (direct fetch, and chats API with legacy fallback), modelled   *)
(* as one state machine of browser events, React effects and HTTP          *)
(* responses.                                                              *)
(***************************************************************************)
EXTENDS Naturals, Sequences, FiniteSets

VARIABLES
    widgetKind,     \* which ChatWidget the bundle contains: "direct" or "api"
    appKind,        \* which App it contains: "jwt" (useJwtToken, JwtGate, /401 page)
                    \* or "login" (token from localStorage, LoginForm)
    sessionStore,   \* the messages held in sessionStorage (none when there is no entry)
    pathname,           \* window.location.pathname
    username,       \* LoginForm state
    loginError,
    ls,             \* localStorage 'jwt_token' (None when there is no entry)
    urlJwt,         \* the ?jwt= query parameter of window.location (NoParam when absent)
    token,          \* App state: useJwtToken's token
    nav,            \* navigation under way: "none", "open" (the document is being opened),
                    \* "reload" (location.reload()) or "root" (location.href = "/")
    pendingEffects, \* React effects of the last commit still to run, children first
    messages,       \* ChatWidget state
    input,
    loading,
    error,
    chatId,
    usingLegacy,
    tasks,          \* async invocations (history load, initializeChat, send) awaiting a response
    cleared401,     \* a 401 handler removed jwt_token since the last page load
    ev              \* what the last step was: a page load, the start or the end of an
                    \* invocation (with what it saw), or NoEv for any other step

vars == <<widgetKind, appKind, sessionStore, pathname, username, loginError,
          ls, urlJwt, token, nav, pendingEffects, messages, input,
          loading, error, chatId, usingLegacy, tasks, cleared401, ev>>

\* what no handler of the bundle writes
fixedVars == <<widgetKind, appKind, sessionStore>>
formVars == <<username, loginError>>

widgetVars == <<messages, input, loading, error, chatId, usingLegacy>>

----------------------------------------------------------------------------
(* Bounds of the model *)

MaxMsgs == 2        \* a send is offered only while the list is shorter than this
MaxOrphans == 1     \* invocations of unmounted widgets that may still be running

(* Values *)

None == "none"              \* null / no entry
NoParam == "noparam"        \* searchParams.get('jwt') === null
Undefined == "undefined"    \* a property read from a body that lacks it
Tokens == {"t1", "t2"}
P401 == "/401"
Root == "/"
Falsy(x) == x \in {None, NoParam, Undefined, ""}

SP == " "
Inputs == {<<>>, <<SP>>, <<SP, "a", SP>>}
ReplyText == <<"r">>
UndefText == <<Undefined>>  \* text of a message built from a missing field

ErrSend == "Oops-something went wrong. Please try again."
ErrLoad == "Failed to load chat history"

----------------------------------------------------------------------------
(* Strings are sequences of characters (input, message text) or of pathname    *)
(* tokens (URLs), so that trimming and URL building are computed.          *)

RECURSIVE TrimStart(_)
TrimStart(s) == IF s # <<>> /\ Head(s) = SP THEN TrimStart(Tail(s)) ELSE s

RECURSIVE TrimEnd(_)
TrimEnd(s) ==
    IF s # <<>> /\ s[Len(s)] = SP THEN TrimEnd(SubSeq(s, 1, Len(s) - 1)) ELSE s

\* (a trim that forgets the end of the string)
TrimStartOnly(s) == TrimStart(s)

\* String.prototype.trim
Trim(s) == TrimEnd(TrimStart(s))

SL == "/"

RECURSIVE StripLeadingSlashes(_)
\* path.replace(/^\/+/, "")
StripLeadingSlashes(p) ==
    IF p # <<>> /\ Head(p) = SL THEN StripLeadingSlashes(Tail(p)) ELSE p

RECURSIVE StripTrailingSlashes(_)
\* RAW.replace(/\/+$/, "")
StripTrailingSlashes(p) ==
    IF p # <<>> /\ p[Len(p)] = SL
    THEN StripTrailingSlashes(SubSeq(p, 1, Len(p) - 1)) ELSE p

StartsWith(p, pre) == Len(p) >= Len(pre) /\ SubSeq(p, 1, Len(pre)) = pre

\* import.meta.env.VITE_BACKEND_URL ?? "/api", VITE_AUTH_URL ?? "/auth"
RAW == <<SL, "api">>
BACKEND_URL == StripTrailingSlashes(RAW)
AUTH_URL == StripTrailingSlashes(<<SL, "auth">>)

\* the url computed by request(path, ...)
BuildUrl(path) ==
    IF StartsWith(path, <<"http">>) THEN path
    ELSE (IF StartsWith(path, <<SL, "auth">>) THEN AUTH_URL ELSE BACKEND_URL)
         \o <<SL>> \o StripLeadingSlashes(path)

LimitQuery == "?limit=50"
\* the path of a url, without its query string
PathOf(url) ==
    IF url # <<>> /\ url[Len(url)] = LimitQuery
    THEN SubSeq(url, 1, Len(url) - 1) ELSE url

----------------------------------------------------------------------------
(* Request bodies and the API client *)

NoBody == [kind |-> "none", history |-> <<>>, content |-> <<>>]
HistoryBody(h) == [kind |-> "history", history |-> h, content |-> <<>>]
ContentBody(c) == [kind |-> "content", history |-> <<>>, content |-> c]
TitleBody(t) == [kind |-> "title", history |-> <<>>, content |-> t]
UsernameBody(n) == [kind |-> "username", history |-> <<>>, content |-> n]

NoHeader == <<>>
Bearer(t) == <<"Bearer", t>>

\* The helpers take the value localStorage holds when they are called
\* (stored), which request reads through getToken().

\* getToken(): localStorage.getItem(TOKEN_KEY) || ""
getToken(stored) == IF Falsy(stored) THEN "" ELSE stored

\* the headers request builds: ...(token ? { Authorization: `Bearer ${token}` } : {})
AuthHeader(tok) == IF tok # "" THEN Bearer(tok) ELSE NoHeader

\* request(path, {method, body}): the fetch it issues
request(stored, path, method, body) ==
    [url |-> BuildUrl(path),
     method |-> method,
     auth |-> AuthHeader(getToken(stored)),
     body |-> body]

get(stored, path) == request(stored, path, "GET", NoBody)
post(stored, path, body) == request(stored, path, "POST", body)

HistoryEndpoint == <<SL, "history">>
ChatEndpoint == <<SL, "chat">>
ChatsEndpoint == <<SL, "api", SL, "chats">>
MessagesEndpoint(id) == <<SL, "api", SL, "chats", SL, id, SL, "messages">>

getHistory(stored) == get(stored, HistoryEndpoint)
sendChat(stored, history) == post(stored, ChatEndpoint, HistoryBody(history))
listChats(stored) == get(stored, ChatsEndpoint)
createChat(stored, title) == post(stored, ChatsEndpoint, TitleBody(title))
getMessages(stored, id) == get(stored, MessagesEndpoint(id) \o <<LimitQuery>>)
sendMessage(stored, id, content) ==
    post(stored, MessagesEndpoint(id), ContentBody(content))

\* the fetches of the direct-fetch ChatWidget, with its token prop
DirectHistory(tok) ==
    [url |-> BACKEND_URL \o <<SL, "history">>, method |-> "GET",
     auth |-> Bearer(tok), body |-> NoBody]
DirectChat(tok, history) ==
    [url |-> BACKEND_URL \o <<SL, "chat">>, method |-> "POST",
     auth |-> Bearer(tok), body |-> HistoryBody(history)]

----------------------------------------------------------------------------
(* Messages *)

Msg(sender, text) == [sender |-> sender, text |-> text]

\* (a bot message that loses the reply text)
BotReplyBlank(o) == Msg("bot", <<>>)

\* { sender: 'bot', text: reply, time: new Date() }
BotReply(o) == Msg("bot", o.reply)

\* (a payload that gives every entry the role 'user')
HistoryPayloadAllUser(ms) ==
    [i \in 1..Len(ms) |-> [role |-> "user", content |-> ms[i].text]]

\* [...messages, userMsg].map(m => ({role, content}))
HistoryPayload(ms) ==
    [i \in 1..Len(ms) |->
        [role |-> IF ms[i].sender = "user" THEN "user" ELSE "assistant",
         content |-> ms[i].text]]

\* what the backend may hold as a conversation
ServerHistories ==
    {<<>>, <<Msg("bot", ReplyText)>>, <<Msg("user", <<"a">>), Msg("bot", ReplyText)>>}

\* (a load that keeps the first message only)
ParseHistoryFirstOnly(isList, hist) ==
    IF isList /\ hist # <<>> THEN <<Msg(hist[1].sender, hist[1].text)>> ELSE <<>>

\* legacy /history: Array.isArray(data.messages) ? data.messages : [], mapped
ParseHistory(isList, hist) ==
    IF isList THEN [i \in 1..Len(hist) |-> Msg(hist[i].sender, hist[i].text)]
    ELSE <<>>

\* the same conversation as the chats API returns it: {role, content}
ChatsMessages(hist) ==
    [i \in 1..Len(hist) |->
        [role |-> IF hist[i].sender = "user" THEN "user" ELSE "assistant",
         content |-> hist[i].text]]

\* messagesData.messages.map(m => ({sender: m.role === 'user' ? 'user' : 'bot', text: m.content}))
ParseMessages(ms) ==
    [i \in 1..Len(ms) |->
        Msg(IF ms[i].role = "user" THEN "user" ELSE "bot", ms[i].content)]

----------------------------------------------------------------------------
(* Token store *)

\* (an initial state that never looks at the URL)
useJwtTokenInitStoreOnly(stored, qp) ==
    IF ~Falsy(stored) THEN [token |-> stored, ls |-> stored, url |-> qp]
    ELSE [token |-> None, ls |-> stored, url |-> qp]

\* (an initial state that applies ?jwt without removing it from the URL)
useJwtTokenInitKeepsParam(stored, qp) ==
    IF ~Falsy(stored) THEN [token |-> stored, ls |-> stored, url |-> qp]
    ELSE IF ~Falsy(qp) THEN [token |-> qp, ls |-> qp, url |-> qp]
    ELSE [token |-> None, ls |-> stored, url |-> qp]

\* the initial state of useJwtToken: the token, and what it leaves in
\* localStorage and in the URL
useJwtTokenInit(stored, qp) ==
    IF ~Falsy(stored) THEN [token |-> stored, ls |-> stored, url |-> qp]
    ELSE IF ~Falsy(qp) THEN [token |-> qp, ls |-> qp, url |-> NoParam]
    ELSE [token |-> None, ls |-> stored, url |-> qp]

\* (a token effect that never removes the entry)
StoredNeverRemoved(t) == IF ~Falsy(t) THEN t ELSE ls

\* the token effect: setItem when token is truthy, removeItem otherwise
StoredAfterEffect(t) == IF ~Falsy(t) THEN t ELSE None

----------------------------------------------------------------------------
(* Async invocations *)

\* An invocation awaiting the answer to req. before and text are the messages
\* and the trimmed input its closure captured; sent and answers record the
\* requests it has issued and the answers it has had.
Task(kind, api, req, cid, before, text) ==
    [live |-> TRUE, kind |-> kind, api |-> api, req |-> req, cid |-> cid,
     before |-> before, text |-> text, sent |-> <<api>>, answers |-> <<>>]

\* A widget that unmounts leaves its invocation running, but its setState calls
\* do nothing any more: of such an invocation only what decides its further
\* requests is kept (the request awaited, the chat id getMessages was called
\* with), not the fetch in flight nor the closure its payloads are built from.
Detached == [url |-> <<>>, method |-> "GET", auth |-> NoHeader, body |-> NoBody]
Orphan(t) ==
    [t EXCEPT !.live = FALSE, !.req = Detached, !.answers = <<>>, !.sent = <<>>,
              !.cid = IF t.api = "getMessages" THEN @ ELSE None,
              !.before = <<>>, !.text = <<>>]

Awaiting(t, o, api, req, cid) ==
    [t EXCEPT !.api = api, !.req = req, !.cid = cid,
              !.sent = Append(@, api), !.answers = Append(@, o.kind)]

\* the invocation t, having had answer o, awaits the answer to req
Continue(t, o, api, req, cid) ==
    IF t.live THEN Awaiting(t, o, api, req, cid)
    ELSE Orphan(Awaiting(t, o, api, req, cid))

\* the invocations of the mounted ChatWidget, of unmounted ones, of the form
\* (a completion that leaves loading as it is)
SettleLoadingStuck(t) == loading

\* finally { setLoading(false) }, a no-op once the widget is unmounted
SettleLoading(t) == IF t.live THEN FALSE ELSE loading

LiveTasks == {t \in tasks : t.live /\ t.kind # "login"}
OrphanTasks == {t \in tasks : ~t.live}
LoginTasks == {t \in tasks : t.kind = "login"}

NoEv == [type |-> "none"]
Loaded(by, stored, qp, held) ==
    [type |-> "load", by |-> by, stored |-> stored, qp |-> qp, held |-> held]
Started(t, typed) == [type |-> "start", task |-> t, typed |-> typed]
Rejected(typed) == [type |-> "rejected", typed |-> typed]
Answered(t, o) ==
    IF t.live THEN [type |-> "answer", of |-> t.api, answer |-> o] ELSE NoEv
Done(t, o) ==
    IF t.live THEN [type |-> "done", task |-> [t EXCEPT !.answers = Append(@, o.kind)],
                    answer |-> o]
    ELSE NoEv

\* (an App without the /401 route)
ViewWithoutRoute == IF ~Falsy(token) THEN "chat" ELSE "gate"

\* what App renders: <Error401/> on /401 (the App with the token gate only),
\* else the chat when token is truthy, else the gate or the login form
View ==
    IF appKind = "jwt" /\ pathname = P401 THEN "unauthorized"
    ELSE IF ~Falsy(token) THEN "chat" ELSE "gate"

Mounted == View = "chat"
\* (an input and a send button that stay enabled while loading)
NeverDisabled == FALSE

\* disabled={loading} of the input and of the send button
Disabled == loading

\* No script is running and the page is not navigating away: events (user
\* input, answers to fetches) are delivered. A navigation a script has started
\* completes before anything else is delivered.
Idle == pendingEffects = <<>> /\ nav = "none"

\* server answers: a status and, for a 2xx, the shape of the body
\*   unauth: 401;  fail: another non-2xx status, or fetch rejected;
\*   text: 2xx whose body is not the JSON object the caller reads (text/html,
\*         text/plain): every property read from it is undefined;
\*   json: 2xx with the JSON body of the endpoint
Answer(kind, list, id, hist, reply) ==
    [kind |-> kind, list |-> list, id |-> id, hist |-> hist, reply |-> reply]
Unauth == Answer("unauth", FALSE, None, <<>>, <<>>)
Fail == Answer("fail", FALSE, None, <<>>, <<>>)
Text == Answer("text", FALSE, Undefined, <<>>, UndefText)
\* GET /api/chats: a list, empty or with a first chat
ChatList(id) == Answer("json", TRUE, id, <<>>, <<>>)
\* POST /api/chats: the created chat
Chat(id) == Answer("json", FALSE, id, <<>>, <<>>)
\* GET /history and GET /api/chats/{id}/messages: {messages}
History(list, hist) == Answer("json", list, None, hist, <<>>)
\* POST /chat: {reply};  POST /api/chats/{id}/messages: {assistant: {content}}
Reply(text) == Answer("json", FALSE, None, <<>>, text)

ListChatsAnswers == {Unauth, Fail, Text, ChatList(None), ChatList("c1")}
CreateChatAnswers == {Unauth, Fail, Text, Chat("c2")}
\* a per-thread endpoint: it has messages for the threads it has listed or
\* created, and none for a request that names no thread (id undefined)
GetMessagesAnswers(id) ==
    {Unauth, Fail, Text} \cup
    (IF Falsy(id) THEN {} ELSE {History(TRUE, h) : h \in ServerHistories})
GetHistoryAnswers ==
    {Unauth, Fail, Text, History(FALSE, <<>>)} \cup
    {History(TRUE, h) : h \in ServerHistories}
SendAnswers == {Unauth, Fail, Text, Reply(ReplyText)}

\* res.status === 401
Is401(o) == o.kind = "unauth"
\* request() throws: 401, !res.ok, or fetch rejected
Failed(o) == Is401(o) \/ o.kind = "fail"

\* (a 401 handling that forgets clearToken(), in either widget)
StoredAfterKept(o) == ls
DirectStoredKept(o) == ls

\* localStorage and location after request() has seen the answer:
\* on 401 clearToken() and window.location.href = "/"
StoredAfter(o) == IF Is401(o) THEN None ELSE ls
NavAfter(o) == IF Is401(o) THEN "root" ELSE nav
\* the same for the direct-fetch widget: removeItem and location.reload()
DirectStoredAfter(o) == IF Is401(o) THEN None ELSE ls
DirectNavAfter(o) == IF Is401(o) THEN "reload" ELSE nav

----------------------------------------------------------------------------
(* Page load, effects, token gate *)

\* The App with the login form reads neither the query string nor the path:
\* for it the document is opened at "/" without ?jwt.
Init ==
    /\ widgetKind \in {"direct", "api"}
    /\ appKind \in {"jwt", "login"}
    /\ sessionStore = <<>>
    /\ pathname \in (IF appKind = "jwt" THEN {Root, P401} ELSE {Root})
    /\ username = <<>>
    /\ loginError = None
    /\ ls \in Tokens \cup {None}
    /\ urlJwt \in (IF appKind = "jwt" THEN Tokens \cup {NoParam, ""} ELSE {NoParam})
    /\ token = None
    /\ nav = "open"
    /\ pendingEffects = <<>>
    /\ messages = <<>>
    /\ input = <<>>
    /\ loading = FALSE
    /\ error = None
    /\ chatId = None
    /\ usingLegacy = FALSE
    /\ tasks = {}
    /\ cleared401 = FALSE
    /\ ev = NoEv

\* useState initial values of a ChatWidget instance
FreshWidget ==
    /\ messages' = <<>>
    /\ input' = <<>>
    /\ loading' = FALSE
    /\ error' = None
    /\ chatId' = None
    /\ usingLegacy' = FALSE

\* effects of a commit run children first: ChatWidget's, then App's
MountEffects(t) == IF ~Falsy(t) THEN <<"widget", "token">> ELSE <<"token">>

\* useState(() => localStorage.getItem('jwt_token') || null) of the App with
\* the login form
StoredTokenInit(stored, qp) ==
    [token |-> IF Falsy(stored) THEN None ELSE stored, ls |-> stored, url |-> qp]

\* useState initial values of a LoginForm instance
FreshForm ==
    /\ username' = <<>>
    /\ loginError' = None

\* The document is (re)loaded from a URL whose path is p and whose ?jwt
\* parameter is qp: everything in memory is gone and App mounts.
LoadPage(by, qp, p) ==
    /\ LET r == IF appKind = "jwt" THEN useJwtTokenInit(ls, qp)
                ELSE StoredTokenInit(ls, qp) IN
        /\ token' = r.token
        /\ ls' = r.ls
        /\ urlJwt' = r.url
        /\ pendingEffects' = IF appKind = "jwt" /\ p = P401 THEN <<"token">>
                             ELSE MountEffects(r.token)
    /\ pathname' = p
    /\ FreshForm
    /\ nav' = "none"
    /\ cleared401' = FALSE
    /\ tasks' = {}
    /\ FreshWidget
    /\ ev' = Loaded(by, ls, qp, token)
    /\ UNCHANGED fixedVars

\* a navigation started by a script (or the first load) completes:
\* location.reload() keeps the URL, href = "/" drops its query string
PageLoad ==
    /\ nav # "none"
    /\ IF nav = "root" THEN LoadPage(nav, NoParam, Root)
       ELSE LoadPage(nav, urlJwt, pathname)

\* the user reloads the page
Reload ==
    /\ Idle
    /\ LoadPage("user", urlJwt, pathname)

\* Error401's "Go to Login" link: <a href="/">
GoToLogin ==
    /\ Idle /\ View = "unauthorized"
    /\ LoadPage("link", NoParam, Root)

\* useEffect(() => { token ? setItem : removeItem }, [token])
TokenEffect ==
    /\ pendingEffects # <<>> /\ Head(pendingEffects) = "token"
    /\ ls' = StoredAfterEffect(token)
    /\ pendingEffects' = Tail(pendingEffects)
    /\ ev' = NoEv
    /\ UNCHANGED <<fixedVars, pathname, formVars, urlJwt, token, nav, tasks, cleared401>>
    /\ UNCHANGED widgetVars

\* JwtGate "Use token": val && onSet(val)
GateSet ==
    /\ Idle /\ View = "gate" /\ appKind = "jwt"
    /\ \E val \in Tokens \cup {""} :
        IF Falsy(val) THEN UNCHANGED vars
        ELSE /\ token' = val
             /\ pendingEffects' = MountEffects(val)
             /\ FreshWidget
             /\ ev' = NoEv
             /\ UNCHANGED <<fixedVars, pathname, formVars, ls, urlJwt, nav, tasks, cleared401>>

\* Logout button: setToken(null); the ChatWidget unmounts, its invocations run on
Logout ==
    /\ Idle /\ Mounted
    /\ LiveTasks # {} => Cardinality(OrphanTasks) < MaxOrphans
    /\ token' = None
    /\ pendingEffects' = MountEffects(None)
    /\ tasks' = {Orphan(t) : t \in tasks}
    /\ FreshWidget
    /\ FreshForm
    /\ ev' = NoEv
    /\ UNCHANGED <<fixedVars, pathname, ls, urlJwt, nav, cleared401>>

----------------------------------------------------------------------------
(* Login form *)

Usernames == {<<>>, <<"u">>}

ErrNoName == "Enter a username"
ErrLogin == "Login failed"
ErrServer == "Server error"
ErrRefused == "Invalid username"    \* an error text of the auth server

\* fetch(`${AUTH_URL}/login`, {method: 'POST', body: JSON.stringify({username})})
LoginRequest(name) ==
    [url |-> AUTH_URL \o <<SL, "login">>, method |-> "POST",
     auth |-> NoHeader, body |-> UsernameBody(name)]

\* answers of the auth endpoint: fetch rejected or a body res.json() cannot
\* parse ("fail"), or a JSON body with or without token and error
LoginAnswer(kind, tok, err) == [kind |-> kind, token |-> tok, error |-> err]
LoginAnswers ==
    {LoginAnswer("fail", Undefined, Undefined),
     LoginAnswer("json", "t1", Undefined),
     LoginAnswer("json", "t2", Undefined),
     LoginAnswer("json", "", Undefined),
     LoginAnswer("json", Undefined, Undefined),
     LoginAnswer("json", Undefined, ErrRefused)}

Submitted(name, held) == [type |-> "submit", name |-> name, held |-> held]
LoggedIn(t, o, held) == [type |-> "logged", task |-> t, answer |-> o, held |-> held]

\* onChange of the username field
SetUsername ==
    /\ Idle /\ View = "gate" /\ appKind = "login"
    /\ \E v \in Usernames :
        /\ v # username
        /\ username' = v
    /\ ev' = NoEv
    /\ UNCHANGED <<fixedVars, pathname, loginError, ls, urlJwt, token, nav,
                   pendingEffects, tasks, cleared401>>
    /\ UNCHANGED widgetVars

\* handleLogin(), up to its await fetch. The user awaits the answer to a login
\* before pressing Login again.
HandleLogin ==
    /\ Idle /\ View = "gate" /\ appKind = "login"
    /\ LoginTasks = {}
    /\ IF username = <<>>      \* if (!username) return setError("Enter a username")
       THEN /\ loginError' = ErrNoName
            /\ ev' = Submitted(username, token)
            /\ UNCHANGED tasks
       ELSE LET t == Task("login", "login", LoginRequest(username), None, <<>>, username)
            IN /\ loginError' = None
               /\ tasks' = tasks \cup {t}
               /\ ev' = Started(t, username)
    /\ UNCHANGED <<fixedVars, pathname, username, ls, urlJwt, token, nav,
                   pendingEffects, cleared401>>
    /\ UNCHANGED widgetVars

\* (a form that logs in with whatever a JSON body holds)
AcceptedAnyJson(o) == o.kind = "json"

\* if (data.token)
Accepted(o) == o.kind = "json" /\ ~Falsy(o.token)

\* setError(data.error || "Login failed"); catch: setError("Server error")
LoginFailure(o) ==
    IF o.kind = "fail" THEN ErrServer
    ELSE IF ~Falsy(o.error) THEN o.error ELSE ErrLogin

\* handleLogin(), from the answer of the auth endpoint on
LoginResponse ==
    /\ Idle
    /\ \E t \in LoginTasks, o \in LoginAnswers :
        /\ tasks' = tasks \ {t}
        /\ ev' = LoggedIn(t, o, token)
        /\ IF Accepted(o)
           THEN /\ token' = o.token           \* onLogin(data.token)
                /\ pendingEffects' = MountEffects(o.token)
                /\ FreshWidget
                /\ FreshForm
           ELSE /\ loginError' = LoginFailure(o)
                /\ UNCHANGED <<username, token, pendingEffects>>
                /\ UNCHANGED widgetVars
    /\ UNCHANGED <<fixedVars, pathname, ls, urlJwt, nav, cleared401>>

----------------------------------------------------------------------------
(* Direct-fetch ChatWidget (components/ChatWidget.jsx) *)

\* (a rollback that removes nothing)
DropNothing(ms) == ms

\* ms.slice(0, -1)
DropLast(ms) == SubSeq(ms, 1, Len(ms) - 1)

\* useEffect(..., [token]): setLoading(true); fetch(`${BACKEND_URL}/history`)
HistoryEffect ==
    /\ widgetKind = "direct"
    /\ pendingEffects # <<>> /\ Head(pendingEffects) = "widget"
    /\ pendingEffects' = Tail(pendingEffects)
    /\ loading' = TRUE
    /\ LET t == Task("init", "history", DirectHistory(token), None, messages, <<>>)
       IN tasks' = tasks \cup {t} /\ ev' = Started(t, input)
    /\ UNCHANGED <<messages, input, error, chatId, usingLegacy>>
    /\ UNCHANGED <<fixedVars, pathname, formVars, ls, urlJwt, token, nav, cleared401>>

\* the .then/.catch/.finally chain of the history fetch
HistoryResponse ==
    /\ Idle
    /\ \E t \in tasks, o \in GetHistoryAnswers :
        /\ t.api = "history"
        /\ tasks' = tasks \ {t}
        /\ ev' = Done(t, o)
        /\ ls' = DirectStoredAfter(o)
        /\ nav' = DirectNavAfter(o)
        /\ cleared401' = (cleared401 \/ Is401(o))
        /\ messages' = IF t.live /\ o.kind = "json"
                       THEN ParseHistory(o.list, o.hist) ELSE messages
        /\ loading' = SettleLoading(t)
    /\ UNCHANGED <<input, error, chatId, usingLegacy>>
    /\ UNCHANGED <<fixedVars, pathname, formVars, urlJwt, token, pendingEffects>>

\* send(), up to its await fetch(`${BACKEND_URL}/chat`)
DirectSend ==
    /\ widgetKind = "direct"
    /\ Idle /\ Mounted /\ ~Disabled
    /\ Len(messages) < MaxMsgs
    /\ LET text == Trim(input)
           userMsg == Msg("user", text)
           historyPayload == HistoryPayload(Append(messages, userMsg))
           t == Task("send", "chat", DirectChat(token, historyPayload),
                     None, messages, text)
       IN IF text = <<>> THEN UNCHANGED vars
          ELSE /\ messages' = Append(messages, userMsg)
               /\ input' = <<>>
               /\ loading' = TRUE
               /\ error' = None    \* the [input] effect: if (error) setError(null)
               /\ tasks' = tasks \cup {t}
               /\ ev' = Started(t, input)
               /\ UNCHANGED <<chatId, usingLegacy>>
               /\ UNCHANGED <<fixedVars, pathname, formVars, ls, urlJwt, token, nav, pendingEffects, cleared401>>

\* send(), from the answer of /chat on
ChatResponse ==
    /\ Idle
    /\ \E t \in tasks, o \in SendAnswers :
        /\ t.api = "chat"
        /\ tasks' = tasks \ {t}
        /\ ev' = Done(t, o)
        /\ ls' = DirectStoredAfter(o)
        /\ nav' = DirectNavAfter(o)
        /\ cleared401' = (cleared401 \/ Is401(o))
        /\ messages' = IF t.live /\ o.kind = "json"
                       THEN Append(messages, BotReply(o)) ELSE messages
        \* !res.ok, a rejected fetch and a body res.json() cannot parse all throw
        /\ error' = IF t.live /\ o.kind \in {"fail", "text"} THEN ErrSend ELSE error
        /\ loading' = SettleLoading(t)
    /\ UNCHANGED <<input, chatId, usingLegacy>>
    /\ UNCHANGED <<fixedVars, pathname, formVars, urlJwt, token, pendingEffects>>

----------------------------------------------------------------------------
(* Chats-API ChatWidget with legacy fallback *)

\* initializeChat(), up to its await api.listChats()
InitializeChat ==
    /\ widgetKind = "api"
    /\ pendingEffects # <<>> /\ Head(pendingEffects) = "widget"
    /\ pendingEffects' = Tail(pendingEffects)
    /\ loading' = TRUE
    /\ error' = None
    /\ LET t == Task("init", "listChats", listChats(ls), None, messages, <<>>)
       IN tasks' = tasks \cup {t} /\ ev' = Started(t, input)
    /\ UNCHANGED <<messages, input, chatId, usingLegacy>>
    /\ UNCHANGED <<fixedVars, pathname, formVars, ls, urlJwt, token, nav, cleared401>>

\* what request() does to the page when the answer arrives
RequestAnswered(o) ==
    /\ ls' = StoredAfter(o)
    /\ nav' = NavAfter(o)
    /\ cleared401' = (cleared401 \/ Is401(o))

\* (a send that prefers the chats API whenever a chat id is set)
SendRoutePrefersChats(legacy, id) ==
    IF ~Falsy(id) THEN "sendMessage" ELSE IF legacy THEN "sendChat" ELSE "none"

\* (a getMessages body without a messages list taken for an empty thread)
MessagesAlwaysUsable(o) == FALSE

\* (a catch block that loads the legacy history without setUsingLegacy(true))
InitFallbackKeepsMode(t, o) ==
    /\ UNCHANGED usingLegacy
    /\ tasks' = (tasks \ {t}) \cup
            {Continue(t, o, "getHistory", getHistory(StoredAfter(o)), t.cid)}

\* the catch block of initializeChat: setUsingLegacy(true); await api.getHistory()
InitFallback(t, o) ==
    /\ usingLegacy' = IF t.live THEN TRUE ELSE usingLegacy
    /\ tasks' = (tasks \ {t}) \cup
            {Continue(t, o, "getHistory", getHistory(StoredAfter(o)), t.cid)}

\* (a selection that loads the messages of another thread than the one it sets)
InitSelectOtherThread(t, o, id) ==
    /\ chatId' = IF t.live THEN id ELSE chatId
    /\ usingLegacy' = IF t.live THEN FALSE ELSE usingLegacy
    /\ tasks' = (tasks \ {t}) \cup
            {Continue(t, o, "getMessages", getMessages(StoredAfter(o), "c0"), id)}

\* setChatId(currentChatId); setUsingLegacy(false); await api.getMessages(currentChatId)
InitSelect(t, o, id) ==
    /\ chatId' = IF t.live THEN id ELSE chatId
    /\ usingLegacy' = IF t.live THEN FALSE ELSE usingLegacy
    /\ tasks' = (tasks \ {t}) \cup
            {Continue(t, o, "getMessages", getMessages(StoredAfter(o), id), id)}

\* initializeChat(), from the answer of listChats on
ListChatsResponse ==
    /\ Idle
    /\ \E t \in tasks, o \in ListChatsAnswers :
        /\ t.api = "listChats"
        /\ IF Failed(o)
           THEN InitFallback(t, o) /\ UNCHANGED chatId
           ELSE IF o.list /\ ~Falsy(o.id)
           \* Array.isArray(chatsList) && chatsList.length > 0
           THEN InitSelect(t, o, o.id)
           ELSE /\ tasks' = (tasks \ {t}) \cup
                    {Continue(t, o, "createChat",
                              createChat(StoredAfter(o), "Default Chat"), t.cid)}
                /\ UNCHANGED <<chatId, usingLegacy>>
        /\ RequestAnswered(o)
        /\ ev' = Answered(t, o)
    /\ UNCHANGED <<messages, input, loading, error>>
    /\ UNCHANGED <<fixedVars, pathname, formVars, urlJwt, token, pendingEffects>>

\* initializeChat(), from the answer of createChat on
CreateChatResponse ==
    /\ Idle
    /\ \E t \in tasks, o \in CreateChatAnswers :
        /\ t.api = "createChat"
        /\ IF Failed(o)
           THEN InitFallback(t, o) /\ UNCHANGED chatId
           ELSE InitSelect(t, o, o.id)     \* newChat.id
        /\ RequestAnswered(o)
        /\ ev' = Answered(t, o)
    /\ UNCHANGED <<messages, input, loading, error>>
    /\ UNCHANGED <<fixedVars, pathname, formVars, urlJwt, token, pendingEffects>>

\* messagesData.messages.map(...) throws on a body without a messages list
MessagesUnusable(o) == o.kind = "text"

\* initializeChat(), from the answer of getMessages on
GetMessagesResponse ==
    /\ Idle
    /\ \E t \in tasks :
        /\ t.api = "getMessages"
        /\ \E o \in GetMessagesAnswers(t.cid) :
            /\ IF Failed(o) \/ MessagesUnusable(o)
               THEN /\ InitFallback(t, o)
                    /\ ev' = Answered(t, o)
                    /\ UNCHANGED <<messages, loading>>
               ELSE /\ messages' = IF t.live
                                   THEN ParseMessages(ChatsMessages(o.hist))
                                   ELSE messages
                    /\ loading' = SettleLoading(t)
                    /\ tasks' = tasks \ {t}
                    /\ ev' = Done(t, o)
                    /\ UNCHANGED usingLegacy
            /\ RequestAnswered(o)
    /\ UNCHANGED <<input, error, chatId>>
    /\ UNCHANGED <<fixedVars, pathname, formVars, urlJwt, token, pendingEffects>>

\* initializeChat(), from the answer of the legacy getHistory on
GetHistoryResponse ==
    /\ Idle
    /\ \E t \in tasks, o \in GetHistoryAnswers :
        /\ t.api = "getHistory"
        /\ tasks' = tasks \ {t}
        /\ ev' = Done(t, o)
        /\ messages' = IF t.live /\ ~Failed(o)
                       THEN ParseHistory(o.list, o.hist) ELSE messages
        /\ error' = IF t.live /\ Failed(o) THEN ErrLoad ELSE error
        /\ loading' = SettleLoading(t)
        /\ RequestAnswered(o)
    /\ UNCHANGED <<input, chatId, usingLegacy>>
    /\ UNCHANGED <<fixedVars, pathname, formVars, urlJwt, token, pendingEffects>>

\* the request send() issues first: legacy when usingLegacy, else the chats
\* API when chatId is set, else none ('No chat initialized')
SendRoute(legacy, id) ==
    IF legacy THEN "sendChat" ELSE IF ~Falsy(id) THEN "sendMessage" ELSE "none"

\* send(), up to its first await
Send ==
    /\ widgetKind = "api"
    /\ Idle /\ Mounted /\ ~Disabled
    /\ Len(messages) < MaxMsgs
    /\ LET text == Trim(input)
           userMsg == Msg("user", text)
           historyPayload == HistoryPayload(Append(messages, userMsg))
           route == SendRoute(usingLegacy, chatId)
           t == Task("send", route,
                     IF route = "sendChat" THEN sendChat(ls, historyPayload)
                     ELSE sendMessage(ls, chatId, text),
                     chatId, messages, text)
       IN IF text = <<>> THEN UNCHANGED vars
          ELSE /\ input' = <<>>
               /\ error' = None    \* the [input] effect: if (error) setError(null)
               /\ IF route # "none"
                  THEN /\ messages' = Append(messages, userMsg)
                       /\ loading' = TRUE
                       /\ tasks' = tasks \cup {t}
                       /\ ev' = Started(t, input)
                  \* the throw is caught at once: the message is appended and
                  \* sliced off, loading set and reset, in one batch
                  ELSE /\ ev' = Rejected(input)
                       /\ UNCHANGED <<messages, loading, tasks>>
               /\ UNCHANGED <<chatId, usingLegacy>>
               /\ UNCHANGED <<fixedVars, pathname, formVars, ls, urlJwt, token, nav, pendingEffects, cleared401>>

\* (a retry that sends the history without the new user message)
RetryPayloadStale(t) == HistoryPayload(t.before)

\* the historyPayload of the retry: [...messages, userMsg] of the send's closure
RetryPayload(t) == HistoryPayload(Append(t.before, Msg("user", t.text)))

\* response.assistant.content throws on a body without assistant
ReplyUnusable(o) == o.kind = "text"

\* send(), from the answer of sendMessage on
SendMessageResponse ==
    /\ Idle
    /\ \E t \in tasks, o \in SendAnswers :
        /\ t.api = "sendMessage"
        /\ IF Failed(o) \/ ReplyUnusable(o)
           \* catch, !usingLegacy && chatId: retry with the legacy API
           THEN /\ usingLegacy' = IF t.live THEN TRUE ELSE usingLegacy
                /\ chatId' = IF t.live THEN None ELSE chatId
                /\ tasks' = (tasks \ {t}) \cup
                     {Continue(t, o, "sendChat",
                               sendChat(StoredAfter(o), RetryPayload(t)), t.cid)}
                /\ ev' = Answered(t, o)
                /\ UNCHANGED <<messages, loading>>
           ELSE /\ messages' = IF t.live
                               THEN Append(messages, BotReply(o))
                               ELSE messages
                /\ loading' = SettleLoading(t)
                /\ tasks' = tasks \ {t}
                /\ ev' = Done(t, o)
                /\ UNCHANGED <<chatId, usingLegacy>>
        /\ RequestAnswered(o)
    /\ UNCHANGED <<input, error>>
    /\ UNCHANGED <<fixedVars, pathname, formVars, urlJwt, token, pendingEffects>>

\* send(), from the answer of the legacy sendChat on (first call or retry)
SendChatResponse ==
    /\ Idle
    /\ \E t \in tasks, o \in SendAnswers :
        /\ t.api = "sendChat"
        /\ tasks' = tasks \ {t}
        /\ ev' = Done(t, o)
        /\ messages' = IF ~t.live THEN messages
                       ELSE IF Failed(o) THEN DropLast(messages)
                       ELSE Append(messages, BotReply(o))
        /\ error' = IF t.live /\ Failed(o) THEN ErrSend ELSE error
        /\ loading' = SettleLoading(t)
        /\ RequestAnswered(o)
    /\ UNCHANGED <<input, chatId, usingLegacy>>
    /\ UNCHANGED <<fixedVars, pathname, formVars, urlJwt, token, pendingEffects>>

----------------------------------------------------------------------------
(* Input field and error banner of both widgets *)

\* (an input field without the [input] effect)
SetInputKeepsError ==
    /\ Idle /\ Mounted /\ ~Disabled
    /\ \E v \in Inputs :
        /\ v # input
        /\ input' = v
    /\ ev' = NoEv
    /\ UNCHANGED <<messages, loading, error, chatId, usingLegacy>>
    /\ UNCHANGED <<fixedVars, pathname, formVars, ls, urlJwt, token, nav, pendingEffects, tasks, cleared401>>

\* onChange: setInput(e.target.value), then the [input] effect clears the error
SetInput ==
    /\ Idle /\ Mounted /\ ~Disabled
    /\ \E v \in Inputs :
        /\ v # input
        /\ input' = v
    /\ error' = None
    /\ ev' = NoEv
    /\ UNCHANGED <<messages, loading, chatId, usingLegacy>>
    /\ UNCHANGED <<fixedVars, pathname, formVars, ls, urlJwt, token, nav, pendingEffects, tasks, cleared401>>

\* the banner's dismiss button: setError(null)
DismissError ==
    /\ Idle /\ Mounted /\ error # None
    /\ error' = None
    /\ ev' = NoEv
    /\ UNCHANGED <<messages, input, loading, chatId, usingLegacy>>
    /\ UNCHANGED <<fixedVars, pathname, formVars, ls, urlJwt, token, nav, pendingEffects, tasks, cleared401>>

----------------------------------------------------------------------------

Next ==
    \/ PageLoad
    \/ Reload
    \/ GoToLogin
    \/ SetUsername
    \/ HandleLogin
    \/ LoginResponse
    \/ TokenEffect
    \/ GateSet
    \/ Logout
    \/ HistoryEffect
    \/ HistoryResponse
    \/ DirectSend
    \/ ChatResponse
    \/ InitializeChat
    \/ ListChatsResponse
    \/ CreateChatResponse
    \/ GetMessagesResponse
    \/ GetHistoryResponse
    \/ Send
    \/ SendMessageResponse
    \/ SendChatResponse
    \/ SetInput
    \/ DismissError

Spec == Init /\ [][Next]_vars

\* What the browser does by itself: a navigation completes, pending effects
\* run, and every fetch in flight is answered (resolves or rejects).
Progress ==
    \/ PageLoad
    \/ TokenEffect
    \/ HistoryEffect
    \/ InitializeChat
    \/ HistoryResponse
    \/ ChatResponse
    \/ ListChatsResponse
    \/ CreateChatResponse
    \/ GetMessagesResponse
    \/ GetHistoryResponse
    \/ SendMessageResponse
    \/ SendChatResponse
    \/ LoginResponse

LiveSpec == Spec /\ WF_vars(Progress)

----------------------------------------------------------------------------
(* Properties *)

Last(q) == q[Len(q)]
Occurs(x, q) == \E i \in 1..Len(q) : q[i] = x
IsFailure(kind) == kind \in {"unauth", "fail"}
ChatsApi == {"listChats", "createChat", "getMessages"}

\* the invocations of the mounted widget: those awaiting an answer, and the one
\* that ended in the last step
Observed == LiveTasks \cup (IF ev.type = "done" THEN {ev.task} ELSE {})
Ended(kind) == ev.type = "done" /\ ev.task.kind = kind
ApiInits == IF widgetKind = "api" THEN {t \in Observed : t.kind = "init"} ELSE {}
ApiSends == IF widgetKind = "api" THEN {t \in Observed : t.kind = "send"} ELSE {}

\* listChats first, createChat only after a listChats that gave no chat,
\* getMessages after the call that gave the chat id, getHistory last
InitOrder(t) ==
    /\ t.sent[1] = "listChats"
    /\ \A i \in 2..Len(t.sent) :
        /\ t.sent[i] # "listChats"
        /\ t.sent[i] = "createChat" =>
                i = 2 /\ ~IsFailure(t.answers[1])
        /\ t.sent[i] = "getMessages" =>
                t.sent[i-1] \in {"listChats", "createChat"} /\ ~IsFailure(t.answers[i-1])
        /\ t.sent[i] = "getHistory" =>
                i = Len(t.sent) /\ t.sent[i-1] \in ChatsApi

\* a failed chats-API call is followed by the legacy history request, with
\* usingLegacy set
InitFallsBack(t) ==
    /\ \A i \in 1..Len(t.answers) :
        (t.sent[i] \in ChatsApi /\ IsFailure(t.answers[i])) =>
            (Len(t.sent) > i /\ t.sent[i+1] = "getHistory")
    /\ Occurs("getHistory", t.sent) => usingLegacy

\* no error while initialisation runs; at its end, an error exactly when the
\* legacy load has failed
InitError(t) ==
    error # None <=>
        (/\ Len(t.answers) = Len(t.sent)
         /\ Last(t.sent) = "getHistory"
         /\ IsFailure(Last(t.answers)))

ChatsCallsSucceeded(t) ==
    \A i \in 1..Len(t.answers) : t.sent[i] \in ChatsApi => ~IsFailure(t.answers[i])

\* C1 as stated: initialisation calls the chats API first (listChats, createChat
\* if needed, getMessages); a failed call sets usingLegacy and loads the legacy
\* history; an error is set only when the legacy load fails too; and when all
\* chats-API calls succeed the legacy history endpoint is never called.
C1_LegacyOnlyAfterFailure ==
    \A t \in ApiInits :
        /\ InitOrder(t) /\ InitFallsBack(t) /\ InitError(t)
        /\ ChatsCallsSucceeded(t) => ~Occurs("getHistory", t.sent)

\* C1 amended: as C1, but the legacy history endpoint is also called when
\* getMessages succeeds with a body that has no messages list: it is never
\* called when all chats-API calls succeed and getMessages returns a list.
C1_GracefulFallback ==
    \A t \in ApiInits :
        /\ InitOrder(t) /\ InitFallsBack(t) /\ InitError(t)
        /\ \A i \in 2..Len(t.sent) :
            t.sent[i] = "getHistory" =>
                \/ IsFailure(t.answers[i-1])
                \/ t.sent[i-1] = "getMessages" /\ t.answers[i-1] = "text"

\* C1 witness: createChat failed, the legacy history was loaded, no error
C1_Witness ==
    /\ Ended("init") /\ widgetKind = "api"
    /\ ev.task.sent = <<"listChats", "createChat", "getHistory">>
    /\ ev.task.answers = <<"json", "fail", "json">>
    /\ usingLegacy /\ error = None /\ ~loading

\* C2: a send whose sendMessage fails while a chat id is set is retried exactly
\* once through the legacy chat endpoint with the same user message; when the
\* retry succeeds the user message stays, the reply follows it and no error is
\* set; a send issues at most two requests, at most one per API.
C2_RetryOnceThroughLegacy ==
    \A t \in ApiSends :
        /\ t.sent \in {<<"sendChat">>, <<"sendMessage">>, <<"sendMessage", "sendChat">>}
        /\ t.sent[1] = "sendMessage" => ~Falsy(t.cid)
        /\ (t.answers # <<>> /\ t.sent[1] = "sendMessage" /\ IsFailure(t.answers[1])) =>
                t.sent = <<"sendMessage", "sendChat">>
        /\ (t \in tasks /\ t.sent = <<"sendMessage", "sendChat">>) =>
                /\ t.req.body.kind = "history"
                /\ Len(t.req.body.history) = Len(t.before) + 1
                /\ Last(t.req.body.history) = [role |-> "user", content |-> t.text]
                /\ messages = Append(t.before, Msg("user", t.text))
        /\ (/\ Len(t.answers) = 2
            /\ t.sent = <<"sendMessage", "sendChat">>
            /\ ~IsFailure(t.answers[2])) =>
                /\ Len(messages) = Len(t.before) + 2
                /\ SubSeq(messages, 1, Len(t.before) + 1) =
                        Append(t.before, Msg("user", t.text))
                /\ Last(messages).sender = "bot"
                /\ error = None

\* C2 witness: sendMessage failed, the retry through /chat succeeded
C2_Witness ==
    /\ Ended("send") /\ widgetKind = "api"
    /\ ev.task.sent = <<"sendMessage", "sendChat">>
    /\ ev.task.answers = <<"fail", "json">>
    /\ Last(messages) = Msg("bot", ReplyText)
    /\ error = None

\* C3: every request of the API client carries Authorization: Bearer <jwt>,
\* the token the app holds, fallback requests included.
C3_BearerOnEveryRequest ==
    widgetKind = "api" =>
        \A t \in LiveTasks : t.req.auth = Bearer(token)

\* C4: a 401 answer to a request of the API client clears the stored token and
\* routes to "/", where the token gate is shown; the call rejects: the
\* invocation goes on in its catch block, or ends with an error.
C4_UnauthorizedClearsAndRoutes ==
    widgetKind = "api" =>
        /\ cleared401 => (ls = None /\ nav = "root")
        /\ nav = "root" => cleared401
        /\ (ev.type = "load" /\ ev.by = "root") =>
                (token = None /\ ls = None /\ urlJwt = NoParam /\ ~Mounted)
        /\ \A t \in LiveTasks :
                (t.answers # <<>> /\ Last(t.answers) = "unauth") =>
                    t.api \in {"getHistory", "sendChat"}
        /\ (ev.type = "done" /\ Last(ev.task.answers) = "unauth") =>
                (cleared401 /\ error \in {ErrLoad, ErrSend})

\* C4 witness: the page has been routed to "/" after a 401 and shows the gate
C4_Witness ==
    /\ widgetKind = "api"
    /\ ev.type = "load" /\ ev.by = "root" /\ ev.held \in Tokens
    /\ ~Mounted /\ ls = None

\* what the direct-fetch widget shows after a 401: nothing of that answer
DirectUnauthorizedQuiet ==
    (widgetKind = "direct" /\ ev.type = "done" /\ Last(ev.task.answers) = "unauth") =>
        /\ cleared401 /\ ls = None /\ nav = "reload"
        /\ ~loading /\ error = None
        /\ messages = IF ev.task.kind = "send"
                      THEN Append(ev.task.before, Msg("user", ev.task.text))
                      ELSE ev.task.before

StoreMirrorsToken == Idle => ls = (IF ~Falsy(token) THEN token ELSE None)

\* C6 as stated: after set-token, logout and reload, once the token effect has
\* run, localStorage holds the app's token, or no entry when the app holds none;
\* a reload restores the token the app held before it.
C6_ReloadRestoresToken ==
    /\ StoreMirrorsToken
    /\ (ev.type = "load" /\ ev.by = "user") => token = ev.held

\* C6 amended: as C6, but a reload restores the token the app held only when
\* it held one; when it held none and the URL still carries ?jwt=<t>, the
\* reload makes t the token.
C6_TokenPersisted ==
    /\ StoreMirrorsToken
    /\ (ev.type = "load" /\ ev.by = "user") =>
            token = (IF ev.held # None THEN ev.held
                     ELSE IF ev.qp \in Tokens THEN ev.qp ELSE None)

\* C6 witness: a reload has restored the token the app held
C6_Witness ==
    /\ ev.type = "load" /\ ev.by = "user"
    /\ ev.held \in Tokens /\ token = ev.held /\ ev.qp = NoParam

\* C7 as stated: a load with a non-empty ?jwt=<t> makes t the token and the
\* stored token, whether or not localStorage already held a token.
C7_QueryOverridesStore ==
    (ev.type = "load" /\ ev.qp \in Tokens) => (token = ev.qp /\ ls = ev.qp)

\* C7 amended: a load with a non-empty ?jwt=<t> makes t the token and the
\* stored token when localStorage holds no token; a stored token is used
\* instead of t when there is one.
C7_QueryFillsEmptyStore ==
    (ev.type = "load" /\ ev.qp \in Tokens) =>
        IF ev.stored = None THEN token = ev.qp /\ ls = ev.qp
        ELSE token = ev.stored /\ ls = ev.stored

\* C7 witness: a load with ?jwt=t1 and an empty store
C7_Witness ==
    /\ ev.type = "load" /\ ev.qp = "t1" /\ ev.stored = None
    /\ token = "t1" /\ ls = "t1"

\* C8 as stated: after any load that found ?jwt in the URL the parameter is
\* gone from the URL.
C8_QueryRemovedByLoad ==
    (ev.type = "load" /\ ev.qp \in Tokens) => urlJwt = NoParam

\* C8 amended: a load removes ?jwt from the URL exactly when it applies it
\* (no stored token), so a token taken from the URL is never applied again; a
\* load that finds a stored token leaves the parameter in the URL, where a
\* later load without stored token (after a logout, say) applies it.
C8_QueryRemovedWhenApplied ==
    (ev.type = "load" /\ ev.qp \in Tokens) =>
        urlJwt = (IF ev.stored = None THEN NoParam ELSE ev.qp)

\* C8 witness: a load applied ?jwt=t2 and removed it from the URL
C8_Witness ==
    /\ ev.type = "load" /\ ev.qp = "t2" /\ ev.stored = None
    /\ urlJwt = NoParam /\ Mounted

\* the path each helper is meant to request with the default base
ExpectedPath(t) ==
    CASE t.api = "getHistory" -> <<SL, "api", SL, "history">>
      [] t.api = "sendChat" -> <<SL, "api", SL, "chat">>
      [] t.api \in {"listChats", "createChat"} -> <<SL, "api", SL, "chats">>
      [] OTHER -> <<SL, "api", SL, "chats", SL, t.cid, SL, "messages">>

\* C9: with the default base the API client requests /api/history and
\* /api/chat for the legacy pair and /api/chats, /api/chats/{id}/messages for
\* the thread set, one slash between base and endpoint.
C9_RequestedPaths ==
    widgetKind = "api" =>
        \A t \in LiveTasks : PathOf(t.req.url) = ExpectedPath(t)

RECURSIVE Spaces(_)
Spaces(n) == IF n = 0 THEN <<>> ELSE <<SP>> \o Spaces(n - 1)

\* text is typed without the white space at its two ends
IsTrimOf(text, typed) ==
    /\ text # <<>> /\ Head(text) # SP /\ Last(text) # SP
    /\ \E i, j \in 0..Len(typed) : typed = Spaces(i) \o text \o Spaces(j)

SendSucceeded == Ended("send") /\ Last(ev.task.answers) = "json"

\* C11: a successful send extends the message list by exactly two entries:
\* the list before the send, then the user message, then one 'bot' message
\* whose text is the reply the backend returned; no error is set.
C11_SuccessfulSendAddsTwo ==
    SendSucceeded =>
        /\ messages = ev.task.before \o
                        <<Msg("user", ev.task.text), Msg("bot", ReplyText)>>
        /\ Len(messages) = Len(ev.task.before) + 2
        /\ error = None

\* C11 witness: a send on a list of one message has succeeded at its first
\* request
C11_Witness ==
    /\ SendSucceeded
    /\ Len(ev.task.answers) = 1
    /\ Len(ev.task.before) = 1
    /\ Len(messages) = 3

\* the send of the chats-API widget has ended with no fallback left
SendFailedForGood ==
    /\ widgetKind = "api" /\ Ended("send")
    /\ Last(ev.task.sent) = "sendChat"
    /\ IsFailure(Last(ev.task.answers))

\* C12: in the chats-API widget a send that fails with no fallback left (the
\* legacy call fails, first or as the retry) removes the optimistic user
\* message, so that the list is the one before the send, and sets the error.
C12_FailedSendRolledBack ==
    SendFailedForGood =>
        /\ messages = ev.task.before
        /\ error = ErrSend

\* C12 witness: sendMessage failed and the legacy retry failed too, on a list
\* that held a message
C12_Witness ==
    /\ SendFailedForGood
    /\ ev.task.sent = <<"sendMessage", "sendChat">>
    /\ ev.task.answers = <<"fail", "fail">>
    /\ ev.task.before # <<>>
    /\ messages = ev.task.before /\ error = ErrSend

\* loading is true exactly while an invocation of the mounted widget awaits
\* an answer, and false in the step that ends one
LoadingWhileInFlight ==
    /\ loading <=> LiveTasks # {}
    /\ Cardinality(LiveTasks) <= 1
    /\ (ev.type = "start" /\ ev.task.kind \in {"init", "send"}) => loading
    /\ (ev.type = "done" /\ ev.task.kind \in {"init", "send"}) => ~loading

LegacyChats == {t \in LiveTasks : t.api \in {"chat", "sendChat"}}

\* C14: the body of a legacy POST /chat is {history}, the whole conversation in
\* display order: one entry per message of the list, the newly sent user message
\* last, role 'user' for the user's messages and 'assistant' for every other,
\* content equal to the message text.
C14_LegacyChatBody ==
    \A t \in LegacyChats :
        LET h == t.req.body.history IN
        /\ t.req.method = "POST" /\ t.req.body.kind = "history"
        /\ messages = Append(t.before, Msg("user", t.text))
        /\ Len(h) = Len(messages)
        /\ \A i \in 1..Len(h) :
            /\ h[i].content = messages[i].text
            /\ h[i].role = (IF messages[i].sender = "user" THEN "user" ELSE "assistant")
        /\ Last(h) = [role |-> "user", content |-> t.text]

\* C14 witness: a legacy retry is in flight whose history starts with a bot
\* message and ends with the user's
C14_Witness ==
    \E t \in LegacyChats :
        /\ t.sent = <<"sendMessage", "sendChat">>
        /\ Len(t.req.body.history) = 2
        /\ t.req.body.history[1].role = "assistant"
        /\ t.req.body.history[2] = [role |-> "user", content |-> <<"a">>]

\* a send has ended in its catch block with nothing left to try
SendGaveUp ==
    /\ Ended("send")
    /\ IF widgetKind = "api"
       THEN Last(ev.task.sent) = "sendChat" /\ IsFailure(Last(ev.task.answers))
       ELSE Last(ev.task.answers) \in {"fail", "text"}

\* the error of a failed send is there when the send ends, although the send
\* emptied the input; an error is shown only over an empty input
ErrorOutlivesSend ==
    /\ SendGaveUp => (error = ErrSend /\ input = <<>>)
    /\ error # None => input = <<>>

\* a step of one ChatWidget instance (no mount, unmount or page load)
SameWidget == Mounted /\ Mounted' /\ token' = token /\ ev'.type # "load"

\* the step changes nothing of the widget but the error
OnlyErrorChanges ==
    /\ UNCHANGED <<messages, input, loading, chatId, usingLegacy, tasks>>
    /\ error' # error

\* an error stays until the input changes or the banner is dismissed, and
\* either of them clears it
ErrorSticky ==
    SameWidget =>
        /\ error # None =>
                \/ error' = error
                \/ error' = None /\ (input' # input \/ OnlyErrorChanges)
        /\ input' # input => error' = None

C16_LoginExchange ==
    /\ ev.type = "submit" =>
            /\ ev.name = <<>>
            /\ loginError = ErrNoName
            /\ LoginTasks = {}
            /\ token = ev.held
    /\ (ev.type = "start" /\ ev.task.kind = "login") =>
            /\ ev.typed # <<>>
            /\ ev.task.req.url = <<SL, "auth", SL, "login">>
            /\ ev.task.req.method = "POST"
            /\ ev.task.req.body.content = ev.typed
            /\ loginError = None
            /\ token = None
    /\ ev.type = "logged" =>
            IF ev.answer.kind = "json" /\ ev.answer.token \in Tokens
            THEN token = ev.answer.token
            ELSE /\ token = ev.held
                 /\ loginError =
                        (IF ev.answer.kind = "fail" THEN ErrServer
                         ELSE IF ev.answer.error = ErrRefused THEN ErrRefused
                         ELSE ErrLogin)

\* C16 witness: the auth endpoint returned token t1 and the chat is shown
C16_Witness ==
    /\ ev.type = "logged"
    /\ ev.answer.token = "t1" /\ ev.held = None
    /\ token = "t1" /\ Mounted

\* something of a ChatWidget is there: its effect is due, one of its
\* invocations is in flight, or it shows messages, an error, typed text
WidgetActive ==
    \/ Occurs("widget", pendingEffects)
    \/ LiveTasks # {}
    \/ messages # <<>> \/ input # <<>> \/ loading \/ error # None

\* something of the gate is there: a login in flight, a typed name, an error
GateActive == LoginTasks # {} \/ username # <<>> \/ loginError # None

\* C17: the view is decided by the token alone: off /401 exactly one of chat
\* view and gate is rendered, the chat exactly when the app holds a non-empty
\* token; an empty value submitted at the gate (or found in ?jwt, or returned
\* by the auth endpoint) changes nothing, so the token is never the empty
\* string; on /401 only the unauthorized page is rendered.
C17_ViewByToken ==
    /\ token \in Tokens \cup {None}
    /\ View \in {"chat", "gate", "unauthorized"}
    /\ View = "unauthorized" <=> (appKind = "jwt" /\ pathname = P401)
    /\ View = "chat" <=> (token \in Tokens /\ ~(appKind = "jwt" /\ pathname = P401))
    /\ WidgetActive => (token \in Tokens /\ pathname # P401)
    /\ GateActive => (token = None /\ pathname # P401)

\* C17 witness: the app was opened at /401 with a stored token: neither chat
\* nor gate
C17_Witness ==
    /\ pathname = P401 /\ token \in Tokens /\ Idle
    /\ View = "unauthorized" /\ ~WidgetActive

\* C18: chat history persists per user in sessionStorage: the messages of a
\* conversation are written to sessionStorage, and they are the ones shown
\* after a reload.
C18_HistoryInSessionStorage ==
    /\ (Mounted /\ Idle /\ ~loading /\ messages # <<>>) => sessionStore = messages
    /\ (Ended("init") /\ sessionStore # <<>>) => messages = sessionStore

\* the initialisation of the chats-API widget in flight
RunningInits == {t \in LiveTasks : widgetKind = "api" /\ t.kind = "init"}

\* listChats or createChat has just returned without failure
ThreadAnswer ==
    /\ widgetKind = "api" /\ ev.type = "answer"
    /\ ev.of \in {"listChats", "createChat"}
    /\ ~IsFailure(ev.answer.kind)

\* C19: initialisation selects the thread: a non-empty list from listChats
\* gives the id of its first element and no createChat; an empty list or a
\* non-list makes it call createChat('Default Chat') once, and the chat id is
\* the id of the created chat; the messages requested are those of that id.
C19_ThreadSelection ==
    /\ ThreadAnswer =>
        /\ RunningInits # {}
        /\ \A t \in RunningInits :
            IF ev.of = "listChats" /\ ev.answer.list /\ ev.answer.id # None
            THEN /\ t.sent = <<"listChats", "getMessages">>
                 /\ chatId = ev.answer.id /\ t.cid = ev.answer.id
                 /\ t.req.method = "GET" /\ Occurs(ev.answer.id, t.req.url)
            ELSE IF ev.of = "listChats"
            THEN /\ t.sent = <<"listChats", "createChat">>
                 /\ t.req.method = "POST"
                 /\ t.req.body = [kind |-> "title", history |-> <<>>,
                                  content |-> "Default Chat"]
                 /\ chatId = None
            ELSE /\ t.sent = <<"listChats", "createChat", "getMessages">>
                 /\ chatId = ev.answer.id /\ t.cid = ev.answer.id
                 /\ t.req.method = "GET" /\ Occurs(ev.answer.id, t.req.url)
    /\ \A t \in ApiInits :
        Cardinality({i \in 1..Len(t.sent) : t.sent[i] = "createChat"}) <= 1

\* C19 witness: listChats returned an empty list, createChat returned chat c2,
\* whose messages are being requested
C19_Witness ==
    /\ ThreadAnswer /\ ev.of = "createChat" /\ ev.answer.id = "c2"
    /\ chatId = "c2"
    /\ \E t \in RunningInits :
        /\ t.answers = <<"json", "json">>
        /\ Occurs("c2", t.req.url)

\* a load of the legacy history has ended (direct widget, or legacy fallback)
HistoryLoadEnded ==
    /\ Ended("init")
    /\ Last(ev.task.sent) \in {"history", "getHistory"}

LegacySendsOnly ==
    (widgetKind = "api" /\ usingLegacy) =>
        /\ \A t \in LiveTasks : t.api # "sendMessage"
        /\ (ev.type = "start" /\ ev.task.kind = "send") =>
                /\ ev.task.sent = <<"sendChat">>
                /\ ev.task.req.body.kind = "history"
                /\ ev.task.req.url = <<SL, "api", SL, "chat">>

\* usingLegacy, once true, stays true for the life of the widget
LegacyStays == (SameWidget /\ usingLegacy) => usingLegacy'

\* C22: legacy mode is sticky: once usingLegacy is true (from initialisation
\* or from a send fallback) every later send of that widget issues only the
\* legacy sendChat request, never sendMessage, whatever chatId is, until the
\* widget is initialised again for a new token.
C22_LegacyModeSticky ==
    /\ []LegacySendsOnly
    /\ [][LegacyStays]_vars

\* C22 witness: a send in legacy mode with a chat id set (getMessages of the
\* selected chat had failed) has issued sendChat
C22_Witness ==
    /\ widgetKind = "api" /\ usingLegacy /\ chatId = "c1"
    /\ ev.type = "start" /\ ev.task.kind = "send"
    /\ ev.task.sent = <<"sendChat">>

\* the chats-API widget is mounted and idle, its initialisation over
IdleAfterInit == widgetKind = "api" /\ Mounted /\ Idle /\ ~loading

====
